---- MODULE Spec2Model ----
(***************************************************************************)
(* Model of the websocket input-streaming driver of elevenlabs-go          *)
(* (Client.doInputStreamingRequest, client.go).                            *)
(*                                                                         *)
(* Two activities share the session state: the calling goroutine (the      *)
(* "writer": handshake, InputWatcher loop, final frame, close, join,       *)
(* result resolution) and the spawned reader goroutine.  Every access to   *)
(* shared state (driverActive, driverError, errCh, the contexts, the       *)
(* socket, the channels) is one step, so every interleaving of the two     *)
(* goroutines at those accesses is a behaviour of the model.               *)
(***************************************************************************)
EXTENDS Integers, Naturals, Sequences, FiniteSets, TLC

\* ---------------------------------------------------------------- bounds
MaxTokens == 2      \* tokens the producer puts on TextReader
MaxFrames == 2      \* frames the remote puts on the socket
MaxChunkTokens == 3 \* tokens fed to textChunker

\* ------------------------------------------------------------ byte strings
\* A Go string is its sequence of bytes.
Hello == <<72, 101, 108, 108, 111>>
World == <<119, 111, 114, 108, 100>>
Period == <<46>>
Comma == <<44>>
Space == <<32>>
Empty == <<>>
CommaWorld == Comma \o World
WorldPeriod == World \o Period
\* The multi-byte dash splitter, byte for byte as chunker.go:33 spells it.
DashSplitter == <<195, 162, 226, 130, 172, 226, 128, 157>>
DashX == DashSplitter \o <<120>>

\* chunker.go:33
splitters ==
    << <<46>>, <<44>>, <<63>>, <<33>>, <<59>>, <<58>>, DashSplitter, <<45>>,
       <<40>>, <<41>>, <<91>>, <<93>>, <<125>>, <<32>> >>

\* strings.HasSuffix, strings.HasPrefix
HasSuffix(str, sub) ==
    /\ Len(str) >= Len(sub)
    /\ SubSeq(str, Len(str) - Len(sub) + 1, Len(str)) = sub
HasPrefix(str, sub) ==
    /\ Len(str) >= Len(sub)
    /\ SubSeq(str, 1, Len(sub)) = sub

\* chunker.go:84-86
endsWith(str, sub) == HasSuffix(str, sub)
\* chunker.go:64-71
endsWithAny(str, subs) == \E i \in 1..Len(subs) : endsWith(str, subs[i])
\* chunker.go:74-81
startsWithAny(str, subs) == \E i \in 1..Len(subs) : HasPrefix(str, subs[i])

\* string(b) for a byte b: the UTF-8 encoding of the code point b, one byte
\* below 0x80 and two bytes from 0x80 on.
ByteToString(b) ==
    IF b < 128 THEN <<b>> ELSE <<192 + (b \div 64), 128 + (b % 64)>>

\* ---------------------------------------------------- textChunker, per token
\* Flush appending the space whatever the text ends with.
Flush_AlwaysPad(out) ==
    [frag   |-> out \o Space,
     padded |-> TRUE]

\* chunker.go:38-42 and 46-50: the fragment sent for a flushed text, and
\* whether a space was appended to it.
Flush(out) ==
    [frag   |-> IF endsWith(out, Space) THEN out ELSE out \o Space,
     padded |-> ~endsWith(out, Space)]

\* ChunkStep joining unsplit tokens with a space.
ChunkStep_SpaceJoin(buffer, text) ==
    IF endsWithAny(buffer, splitters)
       THEN [emit |-> TRUE, out |-> Flush(buffer), buffer |-> text]
       ELSE IF startsWithAny(text, splitters)
               THEN [emit |-> TRUE,
                     out |-> Flush(buffer \o ByteToString(text[1])),
                     buffer |-> Tail(text)]
               ELSE [emit |-> FALSE,
                     out |-> [frag |-> Empty, padded |-> FALSE],
                     buffer |-> IF buffer = Empty THEN text ELSE buffer \o Space \o text]

\* chunker.go:36-55: one iteration of the loop for the token `text`: whether
\* a fragment is sent on chunks, which one, and the buffer afterwards.
ChunkStep(buffer, text) ==
    IF endsWithAny(buffer, splitters)
       THEN [emit |-> TRUE, out |-> Flush(buffer), buffer |-> text]
       ELSE IF startsWithAny(text, splitters)
               THEN [emit |-> TRUE,
                     out |-> Flush(buffer \o ByteToString(text[1])),
                     buffer |-> Tail(text)]
               ELSE [emit |-> FALSE,
                     out |-> [frag |-> Empty, padded |-> FALSE],
                     buffer |-> buffer \o text]

\* chunker.go:32-61: the fragments textChunker sends for the whole token
\* sequence, starting from `buffer`.
RECURSIVE ChunkAll(_, _)
ChunkAll(tokens, buffer) ==
    IF tokens = <<>>
       THEN IF buffer # Empty THEN <<buffer>> ELSE <<>>
       ELSE LET st == ChunkStep(buffer, Head(tokens))
            IN  (IF st.emit THEN <<st.out.frag>> ELSE <<>>) \o ChunkAll(Tail(tokens), st.buffer)

\* ------------------------------------------------------- wire data model
\* StreamingAlignmentSegment, abstracted to distinguishable values.
AlignA == 1
AlignB == 2
AlignC == 3
AlignD == 4

\* StreamingInputResponse: the inbound frames the remote may send.
InputFrames ==
    { [Audio |-> "QQ==", IsFinal |-> FALSE, NormalizedAlignment |-> AlignA, Alignment |-> AlignB],
      [Audio |-> "QUI=", IsFinal |-> TRUE,  NormalizedAlignment |-> AlignC, Alignment |-> AlignD],
      [Audio |-> "!!",   IsFinal |-> FALSE, NormalizedAlignment |-> AlignA, Alignment |-> AlignD] }

\* base64.StdEncoding.DecodeString on the payloads above: the decoded bytes,
\* or an error for text that is not base64.
DecodeString(s) ==
    CASE s = "QQ==" -> [err |-> FALSE, b |-> <<65>>]
      [] s = "QUI=" -> [err |-> FALSE, b |-> <<65, 66>>]
      [] OTHER      -> [err |-> TRUE,  b |-> <<>>]

\* MakeResponse with the two alignment segments exchanged.
MakeResponse_Swapped(input) ==
    [Audio |-> <<>>,
     IsFinal |-> input.IsFinal,
     NormalizedAlignment |-> input.Alignment,
     Alignment |-> input.NormalizedAlignment]

\* StreamingOutputResponse built from an inbound frame (Audio left empty).
MakeResponse(input) ==
    [Audio |-> <<>>,
     IsFinal |-> input.IsFinal,
     NormalizedAlignment |-> input.NormalizedAlignment,
     Alignment |-> input.Alignment]

\* TextChunkFrame with the trailing space of a chunker flush appended.
TextChunkFrame_Padded(chunk) ==
    [text |-> Flush(chunk).frag, try_trigger_generation |-> TRUE]

\* TextChunkFrame without the trigger flag.
TextChunkFrame_NoTrigger(chunk) == [text |-> chunk, try_trigger_generation |-> FALSE]

\* textChunk{Text: chunk, TryTriggerGeneration: true}
TextChunkFrame(chunk) == [text |-> chunk, try_trigger_generation |-> TRUE]

\* map[string]string{"text": ""}
EndOfInputFrame == [text |-> Empty]

\* The tokens the producer puts on TextReader, in order.
DriverTokens == <<Hello, CommaWorld, Period, Space>>
\* Token k of the input source.
Token(k) == DriverTokens[((k - 1) % Len(DriverTokens)) + 1]

\* -------------------------------------------------------------- variables
VARIABLES
    pcW,            \* position of the calling goroutine
    pcR,            \* position of the reader goroutine
    driverActive,   \* client.go:211
    driverError,    \* client.go:212
    ctxDone,        \* parent ctx cancelled
    inputDone,      \* inputCtx cancelled (inputCancel called)
    errCh,          \* buffered channel of capacity 1
    closeCalls,     \* number of conn.Close() invocations
    produced,       \* tokens the producer has offered on TextReader
    taken,          \* tokens the writer has received from TextReader
    textClosed,     \* TextReader closed by the producer
    chunk,          \* writer local: token just received
    sent,           \* frames written to the socket after the configuration frame
    inbound,        \* frames sent by the remote, not yet read
    remoteSent,     \* number of frames the remote has sent
    remoteClosed,   \* the remote closed the connection
    sockErr,        \* the transport failed for reading
    input,          \* reader local: frame just read
    readSeq,        \* history: frames returned by ReadJSON, in order
    audioSink,      \* AudioResponsePipe: [n, b] per successful Write
    delivered,      \* ResponseChannel: [n, ev] per completed handoff
    consumerOn,     \* the caller is still receiving from ResponseChannel
    pendingErr,     \* reader local: err about to be sent on errCh
    result,         \* return value of doInputStreamingRequest
    exitReason,     \* history: why the InputWatcher loop was left
    faultAtExit,    \* history: a fault was on record when the InputWatcher loop was left
    fault,          \* history: fault the reader took into its driverActive branch
    faultRead,      \* history: Len(readSeq) when the reader's fault was raised
    faultExhausted, \* history: input was exhausted when the reader's fault was raised
    sentAtCancel,   \* history: text fragments written when inputCancel fired (-1 before)
    takenAtCancel,  \* history: tokens received when inputCancel fired (-1 before)
    lateReadErr,    \* history: a socket read failed after the end-of-input frame was sent
    ckPc,           \* position of the textChunker goroutine ("off": not started)
    ckIn,           \* the tokens the producer sends on text
    ckPos,          \* tokens textChunker has received from text
    ckInClosed,     \* text closed by the producer
    ckTok,          \* textChunker local: token of the current iteration
    ckBuffer,       \* textChunker local: buffer
    ckPending,      \* textChunker local: the fragment being sent and the buffer to follow
    ckOut,          \* fragments handed off on chunks: [frag, padded]
    ckCloses,       \* number of close(chunks)
    ckOutAtEnd      \* history: Len(ckOut) when the range loop ended (-1 before)

driverVars == <<pcW, pcR, driverActive, driverError, ctxDone, inputDone, errCh,
          closeCalls, produced, taken, textClosed, chunk, sent, inbound,
          remoteSent, remoteClosed, sockErr, input, readSeq, audioSink,
          delivered, consumerOn, pendingErr, result, exitReason, faultAtExit, fault,
          faultRead, faultExhausted, sentAtCancel, takenAtCancel, lateReadErr>>

chunkerVars == <<ckPc, ckIn, ckPos, ckInClosed, ckTok, ckBuffer, ckPending, ckOut,
                 ckCloses, ckOutAtEnd>>

vars == <<driverVars, chunkerVars>>

NoFrame == [Audio |-> "", IsFinal |-> FALSE, NormalizedAlignment |-> 0, Alignment |-> 0]

\* client.go:210-212: the state on entry of doInputStreamingRequest.
DriverInit ==
    /\ pcW = "dial"
    /\ pcR = "idle"
    /\ driverActive = TRUE
    /\ driverError = FALSE
    /\ ctxDone = FALSE
    /\ inputDone = FALSE
    /\ errCh = <<>>
    /\ closeCalls = 0
    /\ produced = 0
    /\ taken = 0
    /\ textClosed = FALSE
    /\ chunk = Empty
    /\ sent = <<>>
    /\ inbound = <<>>
    /\ remoteSent = 0
    /\ remoteClosed = FALSE
    /\ sockErr = FALSE
    /\ input = NoFrame
    /\ readSeq = <<>>
    /\ audioSink = <<>>
    /\ delivered = <<>>
    /\ consumerOn = TRUE
    /\ pendingErr = "none"
    /\ result = "running"
    /\ exitReason = "none"
    /\ faultAtExit = FALSE
    /\ fault = "none"
    /\ faultRead = 0
    /\ faultExhausted = FALSE
    /\ sentAtCancel = -1
    /\ takenAtCancel = -1
    /\ lateReadErr = FALSE

NoStep == [emit |-> FALSE, out |-> [frag |-> Empty, padded |-> FALSE], buffer |-> Empty]

\* No textChunker goroutine is running.
ChunkerOff ==
    /\ ckPc = "off"
    /\ ckIn = <<>>
    /\ ckPos = 0
    /\ ckInClosed = FALSE
    /\ ckTok = Empty
    /\ ckBuffer = Empty
    /\ ckPending = NoStep
    /\ ckOut = <<>>
    /\ ckCloses = 0
    /\ ckOutAtEnd = -1

\* doInputStreamingRequest does not start textChunker.
Init == DriverInit /\ ChunkerOff

connClosed == closeCalls > 0
finalSent == Len(sent) > 0 /\ sent[Len(sent)] = EndOfInputFrame
\* Number of text fragments among the frames written so far.
TextFrames(frames) == Cardinality({i \in 1..Len(frames) : frames[i] # EndOfInputFrame})
sessionOpen == pcW \notin {"dial", "config", "done"}


\* ------------------------------------------------ the calling goroutine
\* Variables only the environment or the reader changes.
envVars == <<produced, textClosed, inbound, remoteSent, remoteClosed, sockErr,
             consumerOn, ctxDone>>
readerVars == <<pcR, input, readSeq, audioSink, delivered, pendingErr, fault,
                faultRead, faultExhausted, sentAtCancel, takenAtCancel, lateReadErr,
                driverError, inputDone>>

\* client.go:223-237: url parse and dial; on failure return err (no socket,
\* nothing deferred yet).  On success defer conn.Close().
Dial ==
    /\ pcW = "dial"
    /\ \/ /\ pcW' = "config"
          /\ UNCHANGED result
       \/ /\ \E e \in {"ParseErr", "DialErr"} : result' = e
          /\ pcW' = "done"
    /\ UNCHANGED <<driverActive, errCh, closeCalls, taken, chunk, sent, exitReason, faultAtExit>>
    /\ UNCHANGED envVars
    /\ UNCHANGED readerVars
    /\ UNCHANGED chunkerVars

\* SendConfig with the defer of line 238 placed after the configuration
\* write: a failed write returns without closing the socket.
SendConfig_NoDefer ==
    /\ pcW = "config"
    /\ \/ /\ pcW' = "loop"
          /\ pcR' = "top"
          /\ UNCHANGED result
       \/ /\ result' = "ConfigErr"
          /\ pcW' = "done"
          /\ UNCHANGED pcR
    /\ UNCHANGED <<driverActive, errCh, closeCalls, taken, chunk, sent, exitReason, faultAtExit>>
    /\ UNCHANGED envVars
    /\ UNCHANGED <<input, readSeq, audioSink, delivered, pendingErr, fault,
                   faultRead, faultExhausted, sentAtCancel, takenAtCancel, lateReadErr,
                   driverError, inputDone>>
    /\ UNCHANGED chunkerVars

\* SendConfig with the reader goroutine started before the configuration
\* write.
SendConfig_EarlyReader ==
    /\ pcW = "config"
    /\ pcR' = "top"
    /\ \/ /\ pcW' = "loop"
          /\ UNCHANGED <<result, closeCalls>>
       \/ /\ result' = "ConfigErr"
          /\ closeCalls' = closeCalls + 1
          /\ pcW' = "done"
    /\ UNCHANGED <<driverActive, errCh, taken, chunk, sent, exitReason, faultAtExit>>
    /\ UNCHANGED envVars
    /\ UNCHANGED <<input, readSeq, audioSink, delivered, pendingErr, fault,
                   faultRead, faultExhausted, sentAtCancel, takenAtCancel, lateReadErr,
                   driverError, inputDone>>
    /\ UNCHANGED chunkerVars

\* client.go:241-253: send the configuration frame; on failure return err
\* (the deferred conn.Close() runs).  On success create inputCtx, errCh, wg
\* and start the reader goroutine.
SendConfig ==
    /\ pcW = "config"
    /\ \/ /\ pcW' = "loop"
          /\ pcR' = "top"
          /\ UNCHANGED <<result, closeCalls>>
       \/ /\ result' = "ConfigErr"
          /\ closeCalls' = closeCalls + 1
          /\ pcW' = "done"
          /\ UNCHANGED pcR
    /\ UNCHANGED <<driverActive, errCh, taken, chunk, sent, exitReason, faultAtExit>>
    /\ UNCHANGED envVars
    /\ UNCHANGED <<input, readSeq, audioSink, delivered, pendingErr, fault,
                   faultRead, faultExhausted, sentAtCancel, takenAtCancel, lateReadErr,
                   driverError, inputDone>>
    /\ UNCHANGED chunkerVars

\* client.go:303-305: case <-inputCtx.Done()
LoopInputCancelled ==
    /\ pcW = "loop"
    /\ inputDone
    /\ driverActive' = FALSE
    /\ exitReason' = "inputCancel"
    /\ faultAtExit' = (errCh # <<>> \/ driverError)
    /\ pcW' = "final"
    /\ UNCHANGED <<errCh, closeCalls, taken, chunk, sent, result>>
    /\ UNCHANGED envVars
    /\ UNCHANGED readerVars
    /\ UNCHANGED chunkerVars

\* client.go:306-308: case <-ctx.Done()
LoopCtxCancelled ==
    /\ pcW = "loop"
    /\ ctxDone
    /\ driverActive' = FALSE
    /\ exitReason' = "ctxCancel"
    /\ faultAtExit' = (errCh # <<>> \/ driverError)
    /\ pcW' = "final"
    /\ UNCHANGED <<errCh, closeCalls, taken, chunk, sent, result>>
    /\ UNCHANGED envVars
    /\ UNCHANGED readerVars
    /\ UNCHANGED chunkerVars

\* client.go:309-313: case chunk, ok := <-TextReader.  A token is received
\* when the producer offers one; ok is false once the channel is closed and
\* drained.  driverActive is only ever cleared by this goroutine on its way
\* out of the loop, so the !driverActive test reads the goroutine's own write.
LoopReceive ==
    /\ pcW = "loop"
    /\ \/ /\ taken < produced
          /\ taken' = taken + 1
          /\ IF ~driverActive
                THEN /\ pcW' = "final"
                     /\ exitReason' = "inactive"
                     /\ faultAtExit' = (errCh # <<>> \/ driverError)
                     /\ UNCHANGED chunk
                ELSE /\ pcW' = "write"
                     /\ chunk' = Token(taken + 1)
                     /\ UNCHANGED <<exitReason, faultAtExit>>
       \/ /\ taken = produced
          /\ textClosed
          /\ pcW' = "final"
          /\ exitReason' = "exhausted"
          /\ faultAtExit' = (errCh # <<>> \/ driverError)
          /\ UNCHANGED <<taken, chunk>>
    /\ UNCHANGED <<driverActive, errCh, closeCalls, sent, result>>
    /\ UNCHANGED envVars
    /\ UNCHANGED readerVars
    /\ UNCHANGED chunkerVars

\* client.go:313-317: conn.WriteJSON(ch) succeeds, or fails and the loop
\* goes on to errCh <- err.
LoopWrite ==
    /\ pcW = "write"
    /\ \/ /\ sent' = Append(sent, TextChunkFrame(chunk))
          /\ pcW' = "loop"
       \/ /\ pcW' = "loopErr"
          /\ UNCHANGED sent
    /\ UNCHANGED <<driverActive, errCh, closeCalls, taken, chunk, result, exitReason, faultAtExit>>
    /\ UNCHANGED envVars
    /\ UNCHANGED readerVars
    /\ UNCHANGED chunkerVars

\* client.go:315-316: errCh <- err (blocks while the slot is full), then
\* break InputWatcher.
LoopSendErr ==
    /\ pcW = "loopErr"
    /\ Len(errCh) < 1
    /\ errCh' = Append(errCh, "WriteErr")
    /\ exitReason' = "writeErr"
    /\ faultAtExit' = TRUE
    /\ pcW' = "final"
    /\ UNCHANGED <<driverActive, closeCalls, taken, chunk, sent, result>>
    /\ UNCHANGED envVars
    /\ UNCHANGED readerVars
    /\ UNCHANGED chunkerVars

\* client.go:322: the guard of the end-of-input frame.
SendFinalGuard(active, errored) == active /\ ~errored

\* client.go:322: if driverActive && !driverError (driverError is written
\* by the reader goroutine; this read is one step of its own).
Final ==
    /\ pcW = "final"
    /\ pcW' = IF SendFinalGuard(driverActive, driverError) THEN "finalWrite" ELSE "close"
    /\ UNCHANGED <<driverActive, errCh, closeCalls, taken, chunk, sent, result, exitReason, faultAtExit>>
    /\ UNCHANGED envVars
    /\ UNCHANGED readerVars
    /\ UNCHANGED chunkerVars

\* client.go:323-327: write the end-of-input frame; a failure is sent to
\* errCh only if ctx.Err() == nil.
FinalWrite ==
    /\ pcW = "finalWrite"
    /\ \/ /\ sent' = Append(sent, EndOfInputFrame)
          /\ pcW' = "close"
       \/ /\ pcW' = IF ctxDone THEN "close" ELSE "finalErr"
          /\ UNCHANGED sent
    /\ UNCHANGED <<driverActive, errCh, closeCalls, taken, chunk, result, exitReason, faultAtExit>>
    /\ UNCHANGED envVars
    /\ UNCHANGED readerVars
    /\ UNCHANGED chunkerVars

\* client.go:325: errCh <- err for the failed end-of-input write (blocks
\* while the slot is full).
FinalSendErr ==
    /\ pcW = "finalErr"
    /\ Len(errCh) < 1
    /\ errCh' = Append(errCh, "FinalWriteErr")
    /\ pcW' = "close"
    /\ UNCHANGED <<driverActive, closeCalls, taken, chunk, sent, result, exitReason, faultAtExit>>
    /\ UNCHANGED envVars
    /\ UNCHANGED readerVars
    /\ UNCHANGED chunkerVars

\* client.go:329: conn.Close()
Close ==
    /\ pcW = "close"
    /\ closeCalls' = closeCalls + 1
    /\ pcW' = "wait"
    /\ UNCHANGED <<driverActive, errCh, taken, chunk, sent, result, exitReason, faultAtExit>>
    /\ UNCHANGED envVars
    /\ UNCHANGED readerVars
    /\ UNCHANGED chunkerVars

\* Wait without the join: the caller goes on whatever the reader is doing.
Wait_NoJoin ==
    /\ pcW = "wait"
    /\ pcW' = "resolve"
    /\ UNCHANGED <<driverActive, errCh, closeCalls, taken, chunk, sent, result, exitReason, faultAtExit>>
    /\ UNCHANGED envVars
    /\ UNCHANGED readerVars
    /\ UNCHANGED chunkerVars

\* client.go:330: wg.Wait() returns once the reader has run wg.Done().
Wait ==
    /\ pcW = "wait"
    /\ pcR = "done"
    /\ pcW' = "resolve"
    /\ UNCHANGED <<driverActive, errCh, closeCalls, taken, chunk, sent, result, exitReason, faultAtExit>>
    /\ UNCHANGED envVars
    /\ UNCHANGED readerVars
    /\ UNCHANGED chunkerVars

\* ResolveResult without the driverError alternative of line 335.
ResolveResult_ActiveOnly(slot, active, errored) ==
    IF slot # <<>>
       THEN IF active THEN Head(slot) ELSE "nil"
       ELSE "nil"

\* client.go:333-344: the value returned for the content of the fault slot.
ResolveResult(slot, active, errored) ==
    IF slot # <<>>
       THEN IF active \/ errored THEN Head(slot) ELSE "nil"
       ELSE "nil"

\* client.go:333-344, then the deferred conn.Close() of line 238.
Resolve ==
    /\ pcW = "resolve"
    /\ result' = ResolveResult(errCh, driverActive, driverError)
    /\ errCh' = IF errCh # <<>> THEN Tail(errCh) ELSE errCh
    /\ closeCalls' = closeCalls + 1
    /\ pcW' = "done"
    /\ UNCHANGED <<driverActive, taken, chunk, sent, exitReason, faultAtExit>>
    /\ UNCHANGED envVars
    /\ UNCHANGED readerVars
    /\ UNCHANGED chunkerVars


\* ---------------------------------------------------- the reader goroutine
writerVars == <<pcW, driverActive, closeCalls, taken, chunk, sent, result, exitReason, faultAtExit>>

\* client.go:256-259: select { case <-ctx.Done(): return; default: ... }
ReaderSelect ==
    /\ pcR = "top"
    /\ pcR' = IF ctxDone THEN "done" ELSE "check"
    /\ UNCHANGED <<input, readSeq, audioSink, delivered, pendingErr, fault, faultRead,
                   faultExhausted, sentAtCancel, takenAtCancel, lateReadErr, driverError, inputDone, errCh>>
    /\ UNCHANGED writerVars
    /\ UNCHANGED envVars
    /\ UNCHANGED chunkerVars

\* client.go:260-262: if !driverActive { return }
ReaderCheckActive ==
    /\ pcR = "check"
    /\ pcR' = IF ~driverActive THEN "done" ELSE "read"
    /\ UNCHANGED <<input, readSeq, audioSink, delivered, pendingErr, fault, faultRead,
                   faultExhausted, sentAtCancel, takenAtCancel, lateReadErr, driverError, inputDone, errCh>>
    /\ UNCHANGED writerVars
    /\ UNCHANGED envVars
    /\ UNCHANGED chunkerVars

\* conn.ReadJSON fails on a socket that was closed locally, on a transport
\* failure, and at the end of what a remote that closed had sent.
ReadFails == connClosed \/ sockErr \/ (remoteClosed /\ inbound = <<>>)

\* client.go:265: conn.ReadJSON(&input) returns the next frame, or an error.
ReaderRead ==
    /\ pcR = "read"
    /\ \/ /\ ~connClosed
          /\ ~sockErr
          /\ inbound # <<>>
          /\ input' = Head(inbound)
          /\ inbound' = Tail(inbound)
          /\ readSeq' = Append(readSeq, Head(inbound))
          /\ pcR' = "decode"
          /\ UNCHANGED lateReadErr
       \/ /\ ReadFails
          /\ pcR' = "readErr"
          /\ lateReadErr' = (lateReadErr \/ (exitReason = "exhausted" /\ finalSent))
          /\ UNCHANGED <<input, inbound, readSeq>>
    /\ UNCHANGED <<audioSink, delivered, pendingErr, fault, faultRead,
                   faultExhausted, sentAtCancel, takenAtCancel, driverError, inputDone, errCh>>
    /\ UNCHANGED writerVars
    /\ UNCHANGED <<produced, textClosed, remoteSent, remoteClosed, sockErr, consumerOn, ctxDone>>
    /\ UNCHANGED chunkerVars

\* client.go:266 and 276: where the reader goes with an error in hand.
AfterFault(active) == IF active THEN "sendErr" ELSE "done"

\* client.go:266-271: if driverActive { errCh <- err; ... }; return
ReaderReadErr ==
    /\ pcR = "readErr"
    /\ pcR' = AfterFault(driverActive)
    /\ IF driverActive
          THEN /\ pendingErr' = "ReadErr"
               /\ fault' = "read"
               /\ faultRead' = Len(readSeq)
               /\ faultExhausted' = (exitReason = "exhausted")
          ELSE UNCHANGED <<pendingErr, fault, faultRead, faultExhausted>>
    /\ UNCHANGED <<input, readSeq, audioSink, delivered, sentAtCancel, takenAtCancel, lateReadErr,
                   driverError, inputDone, errCh>>
    /\ UNCHANGED writerVars
    /\ UNCHANGED envVars
    /\ UNCHANGED chunkerVars

\* ReaderDecode with `continue` in place of the `return` of line 281: the
\* fault is recorded and the loop goes on to the next frame.
ReaderDecode_Continue ==
    /\ pcR = "decode"
    /\ IF DecodeString(input.Audio).err
          THEN /\ pcR' = IF driverActive THEN "top" ELSE "done"
               /\ IF driverActive
                     THEN /\ pendingErr' = "DecodeErr"
                          /\ fault' = "decode"
                          /\ faultRead' = Len(readSeq)
                          /\ faultExhausted' = (exitReason = "exhausted")
                     ELSE UNCHANGED <<pendingErr, fault, faultRead, faultExhausted>>
          ELSE /\ pcR' = "audio"
               /\ UNCHANGED <<pendingErr, fault, faultRead, faultExhausted>>
    /\ UNCHANGED <<input, readSeq, audioSink, delivered, sentAtCancel, takenAtCancel, lateReadErr,
                   driverError, inputDone, errCh>>
    /\ UNCHANGED writerVars
    /\ UNCHANGED envVars
    /\ UNCHANGED chunkerVars

\* client.go:274-282: decode the audio field; on failure
\* if driverActive { errCh <- err; ... }; return
ReaderDecode ==
    /\ pcR = "decode"
    /\ IF DecodeString(input.Audio).err
          THEN /\ pcR' = AfterFault(driverActive)
               /\ IF driverActive
                     THEN /\ pendingErr' = "DecodeErr"
                          /\ fault' = "decode"
                          /\ faultRead' = Len(readSeq)
                          /\ faultExhausted' = (exitReason = "exhausted")
                     ELSE UNCHANGED <<pendingErr, fault, faultRead, faultExhausted>>
          ELSE /\ pcR' = "audio"
               /\ UNCHANGED <<pendingErr, fault, faultRead, faultExhausted>>
    /\ UNCHANGED <<input, readSeq, audioSink, delivered, sentAtCancel, takenAtCancel, lateReadErr,
                   driverError, inputDone, errCh>>
    /\ UNCHANGED writerVars
    /\ UNCHANGED envVars
    /\ UNCHANGED chunkerVars

\* client.go:267 and 277: errCh <- err (blocks while the slot is full).
ReaderSendErr ==
    /\ pcR = "sendErr"
    /\ Len(errCh) < 1
    /\ errCh' = Append(errCh, pendingErr)
    /\ pcR' = "setErr"
    /\ UNCHANGED <<input, readSeq, audioSink, delivered, pendingErr, fault, faultRead,
                   faultExhausted, sentAtCancel, takenAtCancel, lateReadErr, driverError, inputDone>>
    /\ UNCHANGED writerVars
    /\ UNCHANGED envVars
    /\ UNCHANGED chunkerVars

\* ReaderSetError without the assignment: the fault is in the slot and the
\* errored flag stays false.
ReaderSetError_NoFlag ==
    /\ pcR = "setErr"
    /\ UNCHANGED driverError
    /\ pcR' = "cancel"
    /\ UNCHANGED <<input, readSeq, audioSink, delivered, pendingErr, fault, faultRead,
                   faultExhausted, sentAtCancel, takenAtCancel, lateReadErr, inputDone, errCh>>
    /\ UNCHANGED writerVars
    /\ UNCHANGED envVars
    /\ UNCHANGED chunkerVars

\* client.go:268 and 278: driverError = true
ReaderSetError ==
    /\ pcR = "setErr"
    /\ driverError' = TRUE
    /\ pcR' = "cancel"
    /\ UNCHANGED <<input, readSeq, audioSink, delivered, pendingErr, fault, faultRead,
                   faultExhausted, sentAtCancel, takenAtCancel, lateReadErr, inputDone, errCh>>
    /\ UNCHANGED writerVars
    /\ UNCHANGED envVars
    /\ UNCHANGED chunkerVars

\* client.go:269-271 and 279-281: inputCancel(); return
ReaderCancelInput ==
    /\ pcR = "cancel"
    /\ inputDone' = TRUE
    /\ sentAtCancel' = TextFrames(sent)
    /\ takenAtCancel' = taken
    /\ pcR' = "done"
    /\ UNCHANGED <<input, readSeq, audioSink, delivered, pendingErr, fault, faultRead,
                   faultExhausted, lateReadErr, driverError, errCh>>
    /\ UNCHANGED writerVars
    /\ UNCHANGED envVars
    /\ UNCHANGED chunkerVars

\* ReaderAudio with `return` in place of the `break` of line 285: a failed
\* write ends the reader goroutine.
ReaderAudio_Return ==
    /\ pcR = "audio"
    /\ \/ /\ audioSink' = Append(audioSink, [n |-> Len(readSeq), b |-> DecodeString(input.Audio).b])
          /\ pcR' = "send"
       \/ /\ pcR' = "done"
          /\ UNCHANGED audioSink
    /\ UNCHANGED <<input, readSeq, delivered, pendingErr, fault, faultRead,
                   faultExhausted, sentAtCancel, takenAtCancel, lateReadErr, driverError, inputDone, errCh>>
    /\ UNCHANGED writerVars
    /\ UNCHANGED envVars
    /\ UNCHANGED chunkerVars

\* client.go:284-286: AudioResponsePipe.Write(b); on error `break` leaves
\* the select only, so the for loop starts its next iteration.
ReaderAudio ==
    /\ pcR = "audio"
    /\ \/ /\ audioSink' = Append(audioSink, [n |-> Len(readSeq), b |-> DecodeString(input.Audio).b])
          /\ pcR' = "send"
       \/ /\ pcR' = "top"
          /\ UNCHANGED audioSink
    /\ UNCHANGED <<input, readSeq, delivered, pendingErr, fault, faultRead,
                   faultExhausted, sentAtCancel, takenAtCancel, lateReadErr, driverError, inputDone, errCh>>
    /\ UNCHANGED writerVars
    /\ UNCHANGED envVars
    /\ UNCHANGED chunkerVars

\* ReaderSend as a non-blocking send: the event is dropped when the caller
\* is not receiving.
ReaderSend_NonBlocking ==
    /\ pcR = "send"
    /\ delivered' = IF consumerOn
                       THEN Append(delivered, [n |-> Len(readSeq), ev |-> MakeResponse(input)])
                       ELSE delivered
    /\ pcR' = "top"
    /\ UNCHANGED <<input, readSeq, audioSink, pendingErr, fault, faultRead,
                   faultExhausted, sentAtCancel, takenAtCancel, lateReadErr, driverError, inputDone, errCh>>
    /\ UNCHANGED writerVars
    /\ UNCHANGED envVars
    /\ UNCHANGED chunkerVars

\* client.go:289-294: ResponseChannel <- response, a handoff that completes
\* when the caller receives.
ReaderSend ==
    /\ pcR = "send"
    /\ consumerOn
    /\ delivered' = Append(delivered, [n |-> Len(readSeq), ev |-> MakeResponse(input)])
    /\ pcR' = "top"
    /\ UNCHANGED <<input, readSeq, audioSink, pendingErr, fault, faultRead,
                   faultExhausted, sentAtCancel, takenAtCancel, lateReadErr, driverError, inputDone, errCh>>
    /\ UNCHANGED writerVars
    /\ UNCHANGED envVars
    /\ UNCHANGED chunkerVars

\* ------------------------------------------------------------ environment
progVars == <<pcW, pcR, driverActive, driverError, inputDone, errCh, closeCalls,
              taken, chunk, sent, input, readSeq, audioSink, delivered, pendingErr,
              result, exitReason, faultAtExit, fault, faultRead, faultExhausted, sentAtCancel,
              takenAtCancel, lateReadErr>>

\* The caller cancels the parent context.
Cancel ==
    /\ sessionOpen
    /\ ~ctxDone
    /\ ctxDone' = TRUE
    /\ UNCHANGED progVars
    /\ UNCHANGED <<produced, textClosed, inbound, remoteSent, remoteClosed, sockErr, consumerOn>>
    /\ UNCHANGED chunkerVars

\* The producer offers the next token on TextReader.
ProducerSend ==
    /\ sessionOpen
    /\ ~textClosed
    /\ produced < MaxTokens
    /\ produced' = produced + 1
    /\ UNCHANGED progVars
    /\ UNCHANGED <<textClosed, inbound, remoteSent, remoteClosed, sockErr, consumerOn, ctxDone>>
    /\ UNCHANGED chunkerVars

\* The producer closes TextReader.
ProducerClose ==
    /\ sessionOpen
    /\ ~textClosed
    /\ textClosed' = TRUE
    /\ UNCHANGED progVars
    /\ UNCHANGED <<produced, inbound, remoteSent, remoteClosed, sockErr, consumerOn, ctxDone>>
    /\ UNCHANGED chunkerVars

\* The remote sends a frame.
RemoteSend ==
    /\ sessionOpen
    /\ ~connClosed
    /\ ~remoteClosed
    /\ remoteSent < MaxFrames
    /\ \E f \in InputFrames : inbound' = Append(inbound, f)
    /\ remoteSent' = remoteSent + 1
    /\ UNCHANGED progVars
    /\ UNCHANGED <<produced, textClosed, remoteClosed, sockErr, consumerOn, ctxDone>>
    /\ UNCHANGED chunkerVars

\* The remote closes the connection.
RemoteClose ==
    /\ sessionOpen
    /\ ~connClosed
    /\ ~remoteClosed
    /\ remoteClosed' = TRUE
    /\ UNCHANGED progVars
    /\ UNCHANGED <<produced, textClosed, inbound, remoteSent, sockErr, consumerOn, ctxDone>>
    /\ UNCHANGED chunkerVars

\* The transport fails: reads from the socket return an error from now on.
NetFault ==
    /\ sessionOpen
    /\ ~connClosed
    /\ ~sockErr
    /\ sockErr' = TRUE
    /\ UNCHANGED progVars
    /\ UNCHANGED <<produced, textClosed, inbound, remoteSent, remoteClosed, consumerOn, ctxDone>>
    /\ UNCHANGED chunkerVars

\* The caller stops receiving from ResponseChannel.
ConsumerStop ==
    /\ sessionOpen
    /\ consumerOn
    /\ consumerOn' = FALSE
    /\ UNCHANGED progVars
    /\ UNCHANGED <<produced, textClosed, inbound, remoteSent, remoteClosed, sockErr, ctxDone>>
    /\ UNCHANGED chunkerVars

\* ---------------------------------------------------------- specification
WriterNext ==
    \/ Dial \/ SendConfig
    \/ LoopInputCancelled \/ LoopCtxCancelled \/ LoopReceive \/ LoopWrite \/ LoopSendErr
    \/ Final \/ FinalWrite \/ FinalSendErr \/ Close \/ Wait \/ Resolve

ReaderNext ==
    \/ ReaderSelect \/ ReaderCheckActive \/ ReaderRead \/ ReaderReadErr \/ ReaderDecode
    \/ ReaderSendErr \/ ReaderSetError \/ ReaderCancelInput \/ ReaderAudio \/ ReaderSend

EnvNext ==
    \/ Cancel \/ ProducerSend \/ ProducerClose
    \/ RemoteSend \/ RemoteClose \/ NetFault \/ ConsumerStop

Next == WriterNext \/ ReaderNext \/ EnvNext

Spec == Init /\ [][Next]_vars

TypeOK ==
    /\ pcW \in {"dial", "config", "loop", "write", "loopErr", "final", "finalWrite", "finalErr",
                "close", "wait", "resolve", "done"}
    /\ pcR \in {"idle", "top", "check", "read", "readErr", "decode", "audio", "send",
                "sendErr", "setErr", "cancel", "done"}
    /\ Len(errCh) <= 1
    /\ taken <= produced
    /\ produced <= MaxTokens
    /\ remoteSent <= MaxFrames


\* Both goroutines keep being scheduled; the environment (caller, producer,
\* remote, transport) is under no obligation to act.
FairSpec == Spec /\ WF_vars(WriterNext) /\ WF_vars(ReaderNext)

\* ------------------------------------------------------------------ claims
BadFrame(f) == DecodeString(f.Audio).err
returned == pcW = "done"

\* C1: when the writer loop was left because the input source was exhausted,
\* the end-of-input frame was sent and a socket read failed after that, the
\* driver returns nil.
C1_BenignTermination ==
    (returned /\ exitReason = "exhausted" /\ finalSent /\ lateReadErr) => result = "nil"

\* C2: once the parent context is cancelled during a session, the reader
\* goroutine and the writer both terminate and the driver returns.
C2_CancelTerminates ==
    (ctxDone /\ sessionOpen) ~> (pcW = "done" /\ pcR = "done")

\* C3: on input exhaustion with no fault and no cancellation, every frame
\* the remote sent has had its audio written and its event delivered by the
\* time the driver has returned.
C3_NoAudioLostOnExhaustion ==
    ( /\ returned
      /\ exitReason = "exhausted"
      /\ finalSent
      /\ ~ctxDone
      /\ ~sockErr
      /\ \A i \in 1..Len(readSeq) : ~BadFrame(readSeq[i])
      /\ \A i \in 1..Len(inbound) : ~BadFrame(inbound[i])
      /\ Len(audioSink) = Len(readSeq) )
    => ( /\ inbound = <<>>
         /\ Len(audioSink) = remoteSent
         /\ Len(delivered) = remoteSent )

\* C4: a socket read that failed while the session was active and the input
\* source not exhausted is what the driver returns, whenever it returns.
C4_ReadFaultReturned ==
    (returned /\ fault = "read" /\ ~faultExhausted) => result = "ReadErr"

C4_Witness ==
    /\ returned
    /\ fault = "read"
    /\ ~faultExhausted
    /\ exitReason = "inputCancel"
    /\ result = "ReadErr"


\* C5: after the reader has recorded a fault and fired inputCancel, the
\* writer loop writes at most one further text fragment and is never left
\* blocked, whatever the input source offers and whatever its writes do.
C5_WriterStopsPromptly ==
    /\ sentAtCancel >= 0 => TextFrames(sent) - sentAtCancel <= 1
    /\ (takenAtCancel >= 0 /\ taken > takenAtCancel /\ pcW = "loopErr") => ENABLED LoopSendErr

\* C6: the fault slot holds at most one fault, and an activity that raises
\* a fault when the slot is already taken goes on without blocking.
C6_SecondFaultDropped ==
    /\ Len(errCh) <= 1
    /\ pcW = "loopErr" => ENABLED LoopSendErr
    /\ pcW = "finalErr" => ENABLED FinalSendErr
    /\ pcR = "sendErr" => ENABLED ReaderSendErr

\* C7: after a failed write of a text fragment in the writer loop the
\* driver eventually returns that write error, the socket closed and the
\* reader terminated.
C7_WriteFaultReturned ==
    (exitReason = "writeErr") ~> (returned /\ pcR = "done" /\ connClosed /\ result = "WriteErr")


\* The event carries the non-audio fields of the frame.
Carries(ev, f) ==
    /\ ev.IsFinal = f.IsFinal
    /\ ev.Alignment = f.Alignment
    /\ ev.NormalizedAlignment = f.NormalizedAlignment

\* C8 (as stated): when the driver has returned, as many events were
\* delivered as frames were read, and the Nth event carries the fields of
\* the Nth frame.
C8_EventPerFrameRead ==
    returned =>
        /\ Len(delivered) = Len(readSeq)
        /\ \A i \in 1..Len(delivered) : i <= Len(readSeq) /\ Carries(delivered[i].ev, readSeq[i])

\* C8 (amended): when the driver has returned, as many events were
\* delivered as frames were read, decoded and accepted by the audio sink,
\* and the Nth event carries the fields of the Nth such frame.
C8_EventPerAcceptedFrame ==
    returned =>
        /\ Len(delivered) = Len(audioSink)
        /\ \A i \in 1..Len(delivered) :
              /\ delivered[i].n = audioSink[i].n
              /\ delivered[i].n \in 1..Len(readSeq)
              /\ Carries(delivered[i].ev, readSeq[delivered[i].n])

C8_Witness ==
    /\ returned
    /\ Len(readSeq) = 2
    /\ Len(delivered) = 1
    /\ delivered[1].n = 2

\* C9: after a decode fault raised while the session was active the reader
\* reads no further frame, the malformed frame has neither audio in the sink
\* nor an event on ResponseChannel, and the driver returns the decode error.
C9_DecodeFault ==
    fault = "decode" =>
        /\ Len(readSeq) = faultRead
        /\ \A i \in 1..Len(audioSink) : audioSink[i].n # faultRead
        /\ \A i \in 1..Len(delivered) : delivered[i].n # faultRead
        /\ returned => result = "DecodeErr"

C9_Witness ==
    /\ returned
    /\ fault = "decode"
    /\ result = "DecodeErr"
    /\ inbound # <<>>

HasAudio(n) == \E j \in 1..Len(audioSink) : audioSink[j].n = n
HasEvent(n) == \E i \in 1..Len(delivered) : delivered[i].n = n
Increasing(q) == \A i \in 1..Len(q) : \A j \in 1..Len(q) : i < j => q[i].n < q[j].n

\* C10 (as stated): frame N's audio is in the sink before its event is
\* handed off, frame N+1 is not read before the handoff of frame N's event
\* has completed, and audio writes and events are in arrival order.
C10_ReadAfterHandoff ==
    /\ \A n \in 1..Len(readSeq) : HasEvent(n) => HasAudio(n)
    /\ \A n \in 1..(Len(readSeq) - 1) : HasEvent(n)
    /\ Increasing(audioSink)
    /\ Increasing(delivered)

\* C10 (amended): the same for every frame whose audio the sink accepted;
\* a frame whose audio write failed has no event and is followed by the
\* read of the next frame.
C10_ReadAfterHandoffOfAccepted ==
    /\ \A n \in 1..Len(readSeq) : HasEvent(n) => HasAudio(n)
    /\ \A n \in 1..(Len(readSeq) - 1) : HasAudio(n) => HasEvent(n)
    /\ Increasing(audioSink)
    /\ Increasing(delivered)

C10_Witness ==
    /\ Len(readSeq) = 2
    /\ HasAudio(1)
    /\ HasEvent(1)
    /\ HasAudio(2)
    /\ pcR = "send"


\* The dial succeeded: the driver did not return from lines 223-237.
dialed == pcW # "dial" /\ result \notin {"ParseErr", "DialErr"}

\* C11: whenever the driver has returned after a successful dial, the
\* socket has been closed.
C11_SocketClosedOnReturn ==
    (returned /\ dialed) => connClosed

C11_Witness ==
    /\ returned
    /\ result = "ConfigErr"
    /\ connClosed

\* C12: in a session ended by cancellation of the parent context during the
\* relay phase, conn.Close() is invoked exactly once.
C12_ClosedExactlyOnce ==
    (returned /\ exitReason = "ctxCancel") => closeCalls = 1

\* The texts of the text fragments written to the socket, in order.
SentTexts == [i \in 1..TextFrames(sent) |-> sent[i].text]
\* The tokens received from the input source, in order.
TakenTokens == [i \in 1..taken |-> Token(i)]
\* All tokens up to the close of the source were sent, then the
\* end-of-input frame.
inputComplete ==
    /\ exitReason = "exhausted"
    /\ finalSent
    /\ TextFrames(sent) = taken

\* C13 (as stated): the driver returns nil after the handshake only if the
\* whole input and the end-of-input frame were sent.
C13_NilMeansComplete ==
    (returned /\ result = "nil") => inputComplete

\* C13 (amended): the driver returns nil after the handshake only if the
\* parent context was cancelled, or the whole input and the end-of-input
\* frame were sent.
C13_NilMeansCompleteOrCancelled ==
    (returned /\ result = "nil") => (ctxDone \/ inputComplete)

C13_Witness ==
    /\ returned
    /\ result = "nil"
    /\ ctxDone
    /\ taken < produced
    /\ ~finalSent

\* C16: after a failed dial or a failed configuration write the driver has
\* returned that error, the reader goroutine was never started, no token was
\* taken and nothing reached the socket, the audio sink or ResponseChannel.
C16_HandshakeFailureTerminal ==
    (result \in {"ParseErr", "DialErr", "ConfigErr"}) =>
        /\ returned
        /\ pcR = "idle"
        /\ taken = 0
        /\ sent = <<>>
        /\ readSeq = <<>>
        /\ audioSink = <<>>
        /\ delivered = <<>>
        /\ errCh = <<>>

C16_Witness ==
    /\ returned
    /\ result = "ConfigErr"
    /\ pcR = "idle"


\* C14 (as stated): the text frames written between the configuration frame
\* and the end-of-input frame are the fragments textChunker produces from
\* the tokens received.
C14_DriverChunksInput ==
    inputComplete => SentTexts = ChunkAll(TakenTokens, Empty)

\* C14 (amended): the text frames written between the configuration frame
\* and the end-of-input frame are the tokens received, one frame per token,
\* unchanged.
C14_DriverForwardsTokens ==
    inputComplete => SentTexts = TakenTokens

C14_Witness ==
    /\ inputComplete
    /\ taken = 2
    /\ SentTexts = <<Hello, CommaWorld>>
    /\ ChunkAll(TakenTokens, Empty) = <<Hello \o Comma \o Space, World>>

\* C15: text frames are written in the order their tokens were received,
\* none twice and none skipped while the loop runs, each with
\* try_trigger_generation set, and before the end-of-input frame.
C15_OutboundOrder ==
    /\ \A i \in 1..Len(sent) : sent[i] = EndOfInputFrame => i = Len(sent)
    /\ TextFrames(sent) <= taken
    /\ \A i \in 1..TextFrames(sent) :
          sent[i] = [text |-> Token(i), try_trigger_generation |-> TRUE]
    /\ pcW = "loop" => TextFrames(sent) = taken

C15_Witness ==
    /\ pcW = "loop"
    /\ taken = 2
    /\ TextFrames(sent) = 2


\* ------------------------------------------------- the textChunker goroutine
\* The strings a producer may send on text.
ChunkTokens == {Hello, World, Period, CommaWorld, WorldPeriod, Space, Empty, DashX}

\* Sequences of at most n tokens.
TokenSeqs(n) == UNION {[1..k -> ChunkTokens] : k \in 0..n}

\* textChunker(chunks, text) has been started; the producer will send ckIn
\* and then close text.
ChunkerInit ==
    /\ DriverInit
    /\ ckPc = "range"
    /\ ckIn \in TokenSeqs(MaxChunkTokens)
    /\ ckPos = 0
    /\ ckInClosed = FALSE
    /\ ckTok = Empty
    /\ ckBuffer = Empty
    /\ ckPending = NoStep
    /\ ckOut = <<>>
    /\ ckCloses = 0
    /\ ckOutAtEnd = -1

\* chunker.go:36-55: `for text := range text` receives the next token and
\* runs the loop body up to its send on chunks, or ends once text is closed
\* and drained.
ChunkerRecv ==
    /\ ckPc = "range"
    /\ \/ /\ ckPos < Len(ckIn)
          /\ ckPos' = ckPos + 1
          /\ ckTok' = ckIn[ckPos + 1]
          /\ LET st == ChunkStep(ckBuffer, ckIn[ckPos + 1])
             IN  IF st.emit
                    THEN /\ ckPending' = st
                         /\ ckPc' = "send"
                         /\ UNCHANGED ckBuffer
                    ELSE /\ ckBuffer' = st.buffer
                         /\ UNCHANGED <<ckPending, ckPc>>
          /\ UNCHANGED ckOutAtEnd
       \/ /\ ckPos = Len(ckIn)
          /\ ckInClosed
          /\ ckPc' = "drain"
          /\ ckOutAtEnd' = Len(ckOut)
          /\ UNCHANGED <<ckPos, ckTok, ckPending, ckBuffer>>
    /\ UNCHANGED <<ckIn, ckInClosed, ckOut, ckCloses>>
    /\ UNCHANGED driverVars

\* chunker.go:39-43 and 47-51: chunks <- fragment, handed off to the
\* receiver, then the assignment to buffer.
ChunkerSend ==
    /\ ckPc = "send"
    /\ ckOut' = Append(ckOut, ckPending.out)
    /\ ckBuffer' = ckPending.buffer
    /\ ckPc' = "range"
    /\ UNCHANGED <<ckIn, ckPos, ckInClosed, ckTok, ckPending, ckCloses, ckOutAtEnd>>
    /\ UNCHANGED driverVars

\* ChunkerDrain without the send of the remaining buffer.
ChunkerDrain_NoFlush ==
    /\ ckPc = "drain"
    /\ ckPc' = "close"
    /\ UNCHANGED <<ckIn, ckPos, ckInClosed, ckTok, ckBuffer, ckPending, ckOut, ckCloses, ckOutAtEnd>>
    /\ UNCHANGED driverVars

\* ChunkerDrain without the test of line 56: the buffer is sent even when
\* it is empty.
ChunkerDrain_Always ==
    /\ ckPc = "drain"
    /\ ckOut' = Append(ckOut, [frag |-> ckBuffer, padded |-> FALSE])
    /\ ckPc' = "close"
    /\ UNCHANGED <<ckIn, ckPos, ckInClosed, ckTok, ckBuffer, ckPending, ckCloses, ckOutAtEnd>>
    /\ UNCHANGED driverVars

\* chunker.go:56-58: if buffer != "" { chunks <- buffer }
ChunkerDrain ==
    /\ ckPc = "drain"
    /\ ckOut' = IF ckBuffer # Empty
                   THEN Append(ckOut, [frag |-> ckBuffer, padded |-> FALSE])
                   ELSE ckOut
    /\ ckPc' = "close"
    /\ UNCHANGED <<ckIn, ckPos, ckInClosed, ckTok, ckBuffer, ckPending, ckCloses, ckOutAtEnd>>
    /\ UNCHANGED driverVars

\* chunker.go:60: close(chunks)
ChunkerClose ==
    /\ ckPc = "close"
    /\ ckCloses' = ckCloses + 1
    /\ ckPc' = "done"
    /\ UNCHANGED <<ckIn, ckPos, ckInClosed, ckTok, ckBuffer, ckPending, ckOut, ckOutAtEnd>>
    /\ UNCHANGED driverVars

\* The producer closes text after its last token was received
\* (readText, chunker.go:23-28).
ChunkerInputClose ==
    /\ ckPc # "off"
    /\ ~ckInClosed
    /\ ckPos = Len(ckIn)
    /\ ckInClosed' = TRUE
    /\ UNCHANGED <<ckPc, ckIn, ckPos, ckTok, ckBuffer, ckPending, ckOut, ckCloses, ckOutAtEnd>>
    /\ UNCHANGED driverVars

ChunkerNext ==
    \/ ChunkerRecv \/ ChunkerSend \/ ChunkerDrain \/ ChunkerClose \/ ChunkerInputClose

ChunkerSpec == ChunkerInit /\ [][ChunkerNext]_vars

ChunkerTypeOK ==
    /\ ckPc \in {"range", "send", "drain", "close", "done"}
    /\ ckPos \in 0..Len(ckIn)
    /\ Len(ckIn) <= MaxChunkTokens
    /\ ckCloses \in 0..1


\* ----------------------------------------------------- claims on textChunker
RECURSIVE Concat(_)
Concat(q) == IF q = <<>> THEN Empty ELSE Head(q) \o Concat(Tail(q))

\* A fragment without the space a flush appended to it.
Strip(o) == IF o.padded THEN SubSeq(o.frag, 1, Len(o.frag) - 1) ELSE o.frag
Frags == [i \in 1..Len(ckOut) |-> ckOut[i].frag]
Stripped == [i \in 1..Len(ckOut) |-> Strip(ckOut[i])]
Contains(str, sub) ==
    \E k \in 1..Len(str) : k + Len(sub) - 1 <= Len(str) /\ SubSeq(str, k, k + Len(sub) - 1) = sub

\* The first character (UTF-8 code point) of a non-empty string, and what
\* follows it.
RuneLen(b) == IF b < 128 THEN 1 ELSE IF b < 224 THEN 2 ELSE IF b < 240 THEN 3 ELSE 4
FirstChar(text) == SubSeq(text, 1, RuneLen(text[1]))
RestOf(text) == SubSeq(text, RuneLen(text[1]) + 1, Len(text))

\* C17: once textChunker is done, its fragments, each without the space a
\* flush appended, concatenate to the concatenation of the input tokens,
\* byte for byte.
C17_Reconstruction ==
    ckPc = "done" => Concat(Stripped) = Concat(ckIn)

\* C18: a token that starts with a splitter, received on a buffer that does
\* not end with one, makes textChunker send buffer + first character of the
\* token (space-normalised) and continue with the rest of the token as buffer.
C18_SplitterPrefixRule ==
    (ckPc = "send" /\ ~endsWithAny(ckBuffer, splitters) /\ startsWithAny(ckTok, splitters)) =>
        /\ ckPending.out.frag = Flush(ckBuffer \o FirstChar(ckTok)).frag
        /\ ckPending.buffer = RestOf(ckTok)

\* C19 (as stated): for the tokens "Hello", "world", "." textChunker sends
\* one fragment per word, none that merges the two words.
C19_PerWordFragments ==
    (ckPc = "done" /\ ckIn = <<Hello, World, Period>>) =>
        /\ Len(ckOut) >= 2
        /\ \A i \in 1..Len(ckOut) : ~Contains(ckOut[i].frag, Hello \o World)

\* C19 (amended): for the tokens "Hello", "world", "." textChunker sends the
\* single fragment "Helloworld. ": the words are appended to the buffer
\* without a separator and flushed at the period.
C19_WordsMerged ==
    (ckPc = "done" /\ ckIn = <<Hello, World, Period>>) =>
        Frags = <<Hello \o World \o Period \o Space>>

C19_Witness ==
    /\ ckPc = "done"
    /\ ckIn = <<Hello, World, Period>>
    /\ Len(ckOut) = 1

\* C20: chunks is closed at most once, and when it has been closed text was
\* closed and drained, every fragment of the tokens was handed off before,
\* and the buffer left at the end of the loop was sent unchanged as the last
\* fragment if it was not empty, and nothing was sent for an empty one.
C20_CloseProtocol ==
    /\ ckCloses <= 1
    /\ ckPc = "done" => ckCloses = 1
    /\ ckCloses = 1 =>
          /\ ckInClosed
          /\ ckPos = Len(ckIn)
          /\ ckPc = "done"
          /\ Frags = ChunkAll(ckIn, Empty)
          /\ IF ckBuffer # Empty
                THEN /\ Len(ckOut) = ckOutAtEnd + 1
                     /\ ckOut[Len(ckOut)] = [frag |-> ckBuffer, padded |-> FALSE]
                ELSE Len(ckOut) = ckOutAtEnd

C20_Witness ==
    /\ ckPc = "done"
    /\ ckCloses = 1
    /\ ckBuffer # Empty
    /\ ckOutAtEnd >= 1
    /\ Len(ckOut) = ckOutAtEnd + 1


\* ------------------------------------------------- claims: end of session
\* C21: the end-of-input frame is written at most once and after every text
\* fragment, and only when the writer loop was left on input exhaustion with
\* the session marked active and no fault (read, decode or socket write) on
\* record at that moment; a loop left on a fault or on a cancellation is
\* followed by no end-of-input frame.
C21_EndOfInputGuard ==
    /\ \A i \in 1..Len(sent) : sent[i] = EndOfInputFrame => i = Len(sent)
    /\ finalSent => /\ exitReason = "exhausted"
                    /\ driverActive
                    /\ ~faultAtExit

\* C22: once the reader goroutine has been started, the driver reads the
\* fault slot and returns only after the reader has terminated, and after
\* the driver has returned nothing is written to the audio sink, sent on
\* ResponseChannel or read from the socket.
C22_JoinBarrier ==
    /\ []((pcW \in {"resolve", "done"} /\ pcR # "idle") => pcR = "done")
    /\ [][returned => UNCHANGED <<audioSink, delivered, readSeq>>]_vars

C22_Witness ==
    /\ returned
    /\ pcR = "done"
    /\ delivered # <<>>
    /\ audioSink # <<>>

\* C23: if the writer loop was left because the input source is closed and
\* drained, the parent context is never cancelled and the caller keeps
\* receiving from ResponseChannel, the driver eventually closes the socket
\* and returns with the reader terminated, in every interleaving of the
\* reader and the writer.
C23_ExhaustionTerminates ==
    ([]~ctxDone /\ []consumerOn) =>
        ((sessionOpen /\ exitReason = "exhausted") ~> (returned /\ connClosed /\ pcR = "done"))

\* C25: whenever the driver resolves its result with a fault in the slot,
\* driverActive or driverError is true; the value returned is that fault, and
\* nil is returned exactly when the slot is empty.
C25_RecordedFaultReturned ==
    /\ []((pcW = "resolve" /\ errCh # <<>>) => (driverActive \/ driverError))
    /\ [][(pcW = "resolve" /\ pcW' = "done") =>
              /\ result' = "nil" <=> errCh = <<>>
              /\ errCh # <<>> => result' = Head(errCh)]_vars

C25_Witness ==
    /\ returned
    /\ pcR = "done"
    /\ ~driverActive
    /\ driverError
    /\ result = "DecodeErr"

\* The audio sink refused frame n: the frame decoded, the reader is past its
\* AudioResponsePipe.Write and the sink does not hold its audio.
SinkFailed(n) ==
    /\ n \in 1..Len(readSeq)
    /\ ~BadFrame(readSeq[n])
    /\ ~HasAudio(n)
    /\ n < Len(readSeq) \/ pcR \notin {"decode", "audio"}

\* C26: a frame whose audio the sink refused has no event on
\* ResponseChannel, and the step in which the write fails puts nothing in
\* the fault slot, leaves the errored flag and the internal cancellation
\* alone, and takes the reader back to the top of its loop.
C26_SinkFailureSilent ==
    /\ [](\A n \in 1..Len(readSeq) : SinkFailed(n) => ~HasEvent(n))
    /\ [][(pcR = "audio" /\ pcR' \notin {"audio", "send"}) =>
              /\ pcR' = "top"
              /\ UNCHANGED <<errCh, driverError, inputDone, pendingErr, fault, delivered, result>>]_vars

C26_Witness ==
    /\ Len(readSeq) = 2
    /\ SinkFailed(1)
    /\ HasAudio(2)
    /\ HasEvent(2)
    /\ errCh = <<>>
    /\ ~driverError


\* -------------------------------------------- claims: chunker fragments
\* Fragments handed off before the range loop ended.
FlushedCount == IF ckOutAtEnd < 0 THEN Len(ckOut) ELSE ckOutAtEnd

\* C24: every fragment textChunker emits before its input closes ends with
\* a space, which was appended only if the flushed text did not already end
\* with one; and when the buffer ends with a splitter the fragment is the
\* buffer so normalised and the new buffer is exactly the incoming token.
C24_TrailingSpace ==
    /\ \A i \in 1..FlushedCount :
          /\ endsWith(ckOut[i].frag, Space)
          /\ ckOut[i].padded => ~endsWith(Strip(ckOut[i]), Space)
    /\ (ckPc = "send" /\ endsWithAny(ckBuffer, splitters)) =>
          /\ ckPending.buffer = ckTok
          /\ ckPending.out.frag = IF endsWith(ckBuffer, Space) THEN ckBuffer ELSE ckBuffer \o Space
          /\ endsWith(ckPending.out.frag, Space)

C24_Witness ==
    /\ ckIn = <<WorldPeriod, Space, Hello>>
    /\ ckPc = "done"
    /\ Frags = <<World \o Period \o Space, Space, Hello>>


\* C27: every fragment textChunker sends on chunks, and every fragment it
\* is about to send, has at least one byte, whatever the tokens are (empty
\* tokens and single-splitter tokens included); none equals the text of the
\* end-of-input frame.
C27_NoEmptyFragment ==
    /\ \A i \in 1..Len(ckOut) : Len(ckOut[i].frag) >= 1 /\ ckOut[i].frag # EndOfInputFrame.text
    /\ ckPc = "send" => Len(ckPending.out.frag) >= 1

C27_Witness ==
    /\ ckIn = <<Empty, Period, Empty>>
    /\ ckPc = "done"
    /\ Frags = <<Period \o Space>>
====
